---- MODULE Spec2Model ----
(***************************************************************************)
(* Model of server/index.js of STAN-RIYAZ-Chatbot: the SQLite fact table   *)
(* ("memory"), its startup migration, the history table, the tone          *)
(* classifier, the prompt builder, the response generator (callLLM) and    *)
(* the POST /chat handler.                                                  *)
(*                                                                          *)
(* Text is modelled character by character on TLA+ strings (Len, SubSeq    *)
(* and \o), so that the regular expressions and String.includes of the     *)
(* source are computed and not assumed.  The non-ASCII characters of the   *)
(* three canned replies are written in ASCII.                               *)
(***************************************************************************)
EXTENDS Integers, Sequences, FiniteSets, TLC

(***************************************************************************)
(* Bounds of the model.                                                     *)
(***************************************************************************)
\* rows an initial (pre-existing) fact table may hold
MaxRows == 2
\* times the process is started (each start runs the migration once)
MaxRuns == 2
\* fragments a message handed to detectTone on its own is made of
MaxWords == 3
\* POST /chat requests received
MaxReq == 2

(***************************************************************************)
(* Text helpers: String.prototype.includes, toLowerCase, trim.              *)
(***************************************************************************)
UpperCase == "ABCDEFGHIJKLMNOPQRSTUVWXYZ"
LowerCase == "abcdefghijklmnopqrstuvwxyz"

CharAt(s, i) == SubSeq(s, i, i)

IsUpper(c) == \E i \in 1..26 : CharAt(UpperCase, i) = c
IsLower(c) == \E i \in 1..26 : CharAt(LowerCase, i) = c

LowerChar(c) ==
    IF IsUpper(c)
    THEN CharAt(LowerCase, CHOOSE i \in 1..26 : CharAt(UpperCase, i) = c)
    ELSE c

RECURSIVE toLowerCase(_)
toLowerCase(s) ==
    IF Len(s) = 0 THEN ""
    ELSE LowerChar(CharAt(s, 1)) \o toLowerCase(SubSeq(s, 2, Len(s)))

\* s.includes(sub)
Includes(s, sub) ==
    \E i \in 1..(Len(s) - Len(sub) + 1) : SubSeq(s, i, i + Len(sub) - 1) = sub

\* s.trim(), for the blanks the name pattern can capture
RECURSIVE trimStart(_)
trimStart(s) ==
    IF Len(s) > 0 /\ CharAt(s, 1) = " " THEN trimStart(SubSeq(s, 2, Len(s))) ELSE s

RECURSIVE trimEnd(_)
trimEnd(s) ==
    IF Len(s) > 0 /\ CharAt(s, Len(s)) = " "
    THEN trimEnd(SubSeq(s, 1, Len(s) - 1)) ELSE s

trim(s) == trimEnd(trimStart(s))

(***************************************************************************)
(* detectTone (index.js 121-126).                                           *)
(***************************************************************************)
EmpatheticWords == {"sad", "depressed", "unhappy", "down", "not good", "worried"}
PlayfulWords == {"joke", "roast", "funny", "lol", "haha"}

detectTonePlayfulFirst(message) ==
    LET m == toLowerCase(message) IN
    IF \E w \in PlayfulWords : Includes(m, w) THEN "playful"
    ELSE IF \E w \in EmpatheticWords : Includes(m, w) THEN "empathetic"
    ELSE "neutral"

detectTone(message) ==
    LET m == toLowerCase(message) IN
    IF \E w \in EmpatheticWords : Includes(m, w) THEN "empathetic"
    ELSE IF \E w \in PlayfulWords : Includes(m, w) THEN "playful"
    ELSE "neutral"

(***************************************************************************)
(* The two patterns of the /chat handler (index.js 189 and 196).            *)
(***************************************************************************)
\* the {1,40} of /my name is ([A-Za-z ]{1,40})/i
MaxNameLen == 40

NamePrefix == "my name is "

\* [A-Za-z ]
IsNameChar(c) == IsUpper(c) \/ IsLower(c) \/ c = " "

\* positions where /my name is [A-Za-z ]/i matches
NameMatchAt(message, i) ==
    /\ i + Len(NamePrefix) <= Len(message)
    /\ toLowerCase(SubSeq(message, i, i + Len(NamePrefix) - 1)) = NamePrefix
    /\ IsNameChar(CharAt(message, i + Len(NamePrefix)))

\* the greedy run of [A-Za-z ] from position i, at most n characters
RECURSIVE NameRun(_, _, _)
NameRun(message, i, n) ==
    IF n = 0 \/ i > Len(message) \/ ~IsNameChar(CharAt(message, i)) THEN ""
    ELSE CharAt(message, i) \o NameRun(message, i + 1, n - 1)

\* message.match(/my name is ([A-Za-z ]{1,40})/i) is not null
HasNameMatch(message) == \E i \in 1..Len(message) : NameMatchAt(message, i)

\* nameMatch[1].trim(): the group of the leftmost match, trimmed
CapturedName(message) ==
    LET i == CHOOSE j \in 1..Len(message) :
                 /\ NameMatchAt(message, j)
                 /\ \A k \in 1..(j - 1) : ~NameMatchAt(message, k)
    IN trim(NameRun(message, i + Len(NamePrefix), MaxNameLen))

\* /what(('| i)s)? my name\??/i.test(message)
IsNameQuestion(message) ==
    LET m == toLowerCase(message) IN
    \/ Includes(m, "what my name")
    \/ Includes(m, "what's my name")
    \/ Includes(m, "what is my name")

(***************************************************************************)
(* JSON values of a request body.  t is the JavaScript type; v the text of *)
(* a string or the literal of a number or boolean ("" for undefined, for   *)
(* an object and for an array).                                             *)
(***************************************************************************)
Undefined == [t |-> "undefined", v |-> ""]
Str(s) == [t |-> "string", v |-> s]
Num(n) == [t |-> "number", v |-> n]
Bool(b) == [t |-> "boolean", v |-> b]
Arr == [t |-> "array", v |-> ""]

\* JavaScript truthiness of a body field: !x is true of undefined, null, "",
\* 0 and false
Truthy(x) ==
    CASE x.t = "string" -> x.v # ""
      [] x.t = "number" -> x.v # "0"
      [] x.t = "boolean" -> x.v = "true"
      [] x.t \in {"object", "array"} -> TRUE
      [] OTHER -> FALSE

\* whether message.toLowerCase and message.match are functions
HasStringMethods(x) == x.t = "string"

(***************************************************************************)
(* The fact table and the SQL statements run on it.  A table is absent or  *)
(* holds rows in rowid order; unique tells whether it was created with     *)
(* UNIQUE(user_id, fact_key).                                               *)
(***************************************************************************)
NoTable == [exists |-> FALSE, unique |-> FALSE, rows |-> <<>>]
Table(u, rs) == [exists |-> TRUE, unique |-> u, rows |-> rs]
Row(userId, key, value) == [user_id |-> userId, fact_key |-> key, fact_value |-> value]

HasRow(rs, userId, key) ==
    \E i \in 1..Len(rs) : rs[i].user_id = userId /\ rs[i].fact_key = key

\* at most one row per (user_id, fact_key)
UniqueRows(rs) ==
    \A i, j \in 1..Len(rs) :
        (rs[i].user_id = rs[j].user_id /\ rs[i].fact_key = rs[j].fact_key) => i = j

\* INSERT ... ON CONFLICT(user_id, fact_key) DO UPDATE SET fact_value =
\* excluded.fact_value, on the rows of a table that has the constraint
UpsertRowsKeepFirst(rs, userId, key, value) ==
    IF HasRow(rs, userId, key) THEN rs ELSE Append(rs, Row(userId, key, value))

UpsertRows(rs, userId, key, value) ==
    IF HasRow(rs, userId, key)
    THEN [i \in 1..Len(rs) |->
            IF rs[i].user_id = userId /\ rs[i].fact_key = key
            THEN [rs[i] EXCEPT !.fact_value = value] ELSE rs[i]]
    ELSE Append(rs, Row(userId, key, value))

\* The statement of saveFact on a table: it fails (and changes nothing) when
\* the table is absent or has no constraint for ON CONFLICT to name.
SaveFactFails(tbl) == ~tbl.exists \/ ~tbl.unique

SaveFactSQLInsertOnly(tbl, userId, key, value) ==
    IF SaveFactFails(tbl) THEN tbl
    ELSE [tbl EXCEPT !.rows = Append(tbl.rows, Row(userId, key, value))]

SaveFactSQL(tbl, userId, key, value) ==
    IF SaveFactFails(tbl) THEN tbl
    ELSE [tbl EXCEPT !.rows = UpsertRows(tbl.rows, userId, key, value)]

\* INSERT OR IGNORE of one row
InsertOrIgnore(tbl, r) ==
    IF tbl.unique /\ HasRow(tbl.rows, r.user_id, r.fact_key) THEN tbl
    ELSE [tbl EXCEPT !.rows = Append(tbl.rows, r)]

\* INSERT OR IGNORE INTO memory ... SELECT ... FROM memory_old, in rowid order
RECURSIVE CopyRows(_, _)
CopyRows(tbl, rs) ==
    IF rs = <<>> THEN tbl ELSE CopyRows(InsertOrIgnore(tbl, Head(rs)), Tail(rs))

(***************************************************************************)
(* getFacts (index.js 103-110): the facts object, as its properties in     *)
(* insertion order.                                                          *)
(***************************************************************************)
FactsHas(facts, key) == \E i \in 1..Len(facts) : facts[i].key = key

\* facts[key] = value
FactsSet(facts, key, value) ==
    IF FactsHas(facts, key)
    THEN [i \in 1..Len(facts) |->
            IF facts[i].key = key THEN [facts[i] EXCEPT !.value = value] ELSE facts[i]]
    ELSE Append(facts, [key |-> key, value |-> value])

\* facts[key], Undefined when there is no such property
FactsGet(facts, key) ==
    IF FactsHas(facts, key)
    THEN Str(facts[CHOOSE i \in 1..Len(facts) : facts[i].key = key].value)
    ELSE Undefined

RECURSIVE FactsOfRows(_, _, _)
FactsOfRows(rs, userId, facts) ==
    IF rs = <<>> THEN facts
    ELSE FactsOfRows(Tail(rs), userId,
            IF Head(rs).user_id = userId
            THEN FactsSet(facts, Head(rs).fact_key, Head(rs).fact_value)
            ELSE facts)

\* what getFacts hands to its callback: {} when the SELECT fails
getFactsAllUsers(tbl, userId) ==
    IF ~tbl.exists THEN <<>>
    ELSE FactsOfRows([i \in 1..Len(tbl.rows) |-> [tbl.rows[i] EXCEPT !.user_id = userId]],
                     userId, <<>>)

getFactsSurfacesError(tbl, userId) ==
    IF ~tbl.exists THEN <<[key |-> "error", value |-> "no such table: memory"]>>
    ELSE FactsOfRows(tbl.rows, userId, <<>>)

getFacts(tbl, userId) ==
    IF ~tbl.exists THEN <<>> ELSE FactsOfRows(tbl.rows, userId, <<>>)

(***************************************************************************)
(* buildPrompt (index.js 131-145).                                          *)
(***************************************************************************)
Persona == "You are a helpful chatbot named 'Riyaz Assistant'. Keep replies concise."

RECURSIVE JsonMembers(_)
JsonMembers(facts) ==
    IF facts = <<>> THEN ""
    ELSE "\"" \o Head(facts).key \o "\":\"" \o Head(facts).value \o "\""
         \o (IF Len(facts) > 1 THEN "," ELSE "") \o JsonMembers(Tail(facts))

\* JSON.stringify(facts), for keys and values that need no escaping
JsonStringify(facts) == "{" \o JsonMembers(facts) \o "}"

ToneHint(tone) ==
    IF tone = "empathetic" THEN "Respond with empathy, warm and short."
    ELSE IF tone = "playful" THEN "Respond playful and light-hearted."
    ELSE "Respond neutrally and helpfully."

buildPrompt(userId, message, facts, tone) ==
    LET factsText == IF Len(facts) # 0
                     THEN "Known facts about the USER: " \o JsonStringify(facts)
                     ELSE "No known facts about the user yet."
    IN Persona \o "\n" \o factsText \o "\n" \o ToneHint(tone)
       \o "\nUser: " \o message \o "\nAssistant:"

(***************************************************************************)
(* callLLM (index.js 150-170).                                              *)
(***************************************************************************)
EmpatheticReply == "I'm sorry you're feeling that way - I hear you. Tell me more, and I'll help."
PlayfulReply == "Haha nice! You're on fire - tell me more and I'll roast you gently ;)"
NeutralReply == "Thanks for telling me. I can help with that - what would you like to try next?"

\* the reply template the offline mode is meant to give a tone
ReplyOfTone(tone) ==
    IF tone = "empathetic" THEN EmpatheticReply
    ELSE IF tone = "playful" THEN PlayfulReply
    ELSE NeutralReply

\* the offline branch: no genAI
callLLMOffline(prompt) ==
    [text |-> IF Includes(prompt, "empathetic") THEN EmpatheticReply
              ELSE IF Includes(prompt, "playful") THEN PlayfulReply
              ELSE NeutralReply,
     simulated |-> TRUE, threw |-> FALSE]

\* What the provider call does: it resolves with a text or rejects with an
\* Error that has a message.
ProviderOutcomes ==
    { [ok |-> TRUE, text |-> "Hello from Gemini"],
      [ok |-> FALSE, text |-> "fetch failed"] }

\* the live branch: try { generateContent } catch (err) { ... }
callLLMLiveRethrows(outcome) ==
    IF outcome.ok THEN [text |-> outcome.text, simulated |-> FALSE, threw |-> FALSE]
    ELSE [text |-> outcome.text, simulated |-> TRUE, threw |-> TRUE]

callLLMLive(outcome) ==
    IF outcome.ok THEN [text |-> outcome.text, simulated |-> FALSE, threw |-> FALSE]
    ELSE [text |-> "Error calling Gemini: " \o outcome.text,
          simulated |-> TRUE, threw |-> FALSE]

(***************************************************************************)
(* State.                                                                   *)
(*   memory, memory_old  the fact table and the migration's temporary table *)
(*   history             the rows of the history table (the time column is  *)
(*                       left out; req, the request that inserted the row,  *)
(*                       is bookkeeping of the model and keeps rows apart)  *)
(*   genAI               whether MY_API_KEY is set (index.js 10-11)         *)
(*   mpc                 where migrateMemoryTable is: the statement whose   *)
(*                       callback runs next, or "done" / "aborted"          *)
(*   runs                how many times the process was started             *)
(*   steps               the statements the current migration has run, each *)
(*                       with the error its callback received ("" = null)   *)
(*   pre                 the fact table when the current migration started  *)
(*   first               the fact table when the process was first started  *)
(*   clean               whether every migration so far ended with the      *)
(*                       "migrated successfully" line of index.js 63        *)
(*   reqs                the POST /chat requests received, in arrival order *)
(*   pendingFacts        saveFact statements issued and not yet executed    *)
(*   appliedSaves        per user, the saveFact statements executed so far  *)
(*   view                the last response of GET /memory/:user_id          *)
(*   text, label         a message handed to detectTone on its own, and the *)
(*                       label it returned ("" before the call)             *)
(***************************************************************************)
VARIABLES memory, memory_old, history, genAI, mpc, runs, steps, pre, first,
          clean, reqs, pendingFacts, appliedSaves, view, text, label

vars == <<memory, memory_old, history, genAI, mpc, runs, steps, pre, first,
          clean, reqs, pendingFacts, appliedSaves, view, text, label>>

Users == {"u1", "u2"}

(***************************************************************************)
(* migrateMemoryTable (index.js 20-73).  Each action is one statement       *)
(* together with its callback.  A statement fails for the reason SQLite     *)
(* gives on the tables as they are, or (fault) for a reason outside them,   *)
(* the case the callbacks' error branches are written for.                  *)
(***************************************************************************)
IOError == "disk I/O error"

LogStep(name, err) == Append(steps, [step |-> name, err |-> err])

\* db.get(`PRAGMA table_info(memory)`, (err) => ...)
MigPragma ==
    /\ mpc = "pragma"
    /\ \E fault \in BOOLEAN :
         LET err == IF fault THEN IOError ELSE "" IN
         /\ steps' = LogStep("pragma", err)
         /\ mpc' = IF err # "" THEN "aborted" ELSE "rename"
    /\ UNCHANGED <<memory, memory_old, history, genAI, runs, pre, first, clean,
                   reqs, pendingFacts, appliedSaves,
                   view, text, label>>

\* the error of ALTER TABLE memory RENAME TO memory_old
RenameError(fault) ==
    IF fault THEN IOError
    ELSE IF ~memory.exists THEN "no such table: memory"
    ELSE IF memory_old.exists
         THEN "there is already another table or index with this name: memory_old"
    ELSE ""

\* if (renameErr && !renameErr.message.includes("no such table")) return;
RenameAborts(err) == err # "" /\ ~Includes(err, "no such table")

\* Step 1
MigRename ==
    /\ mpc = "rename"
    /\ \E fault \in BOOLEAN :
         LET err == RenameError(fault) IN
         /\ steps' = LogStep("rename", err)
         /\ IF err = ""
            THEN memory_old' = memory /\ memory' = NoTable
            ELSE UNCHANGED <<memory, memory_old>>
         /\ mpc' = IF RenameAborts(err) THEN "aborted" ELSE "create"
    /\ UNCHANGED <<history, genAI, runs, pre, first, clean,
                   reqs, pendingFacts, appliedSaves,
                   view, text, label>>

\* Step 2: CREATE TABLE IF NOT EXISTS memory (..., UNIQUE(user_id, fact_key))
MigCreate ==
    /\ mpc = "create"
    /\ \E fault \in BOOLEAN :
         LET err == IF fault THEN IOError ELSE "" IN
         /\ steps' = LogStep("create", err)
         /\ memory' = IF err = "" /\ ~memory.exists THEN Table(TRUE, <<>>) ELSE memory
         /\ mpc' = IF err # "" THEN "aborted" ELSE "copy"
    /\ UNCHANGED <<memory_old, history, genAI, runs, pre, first, clean,
                   reqs, pendingFacts, appliedSaves,
                   view, text, label>>

\* the error of INSERT OR IGNORE INTO memory ... SELECT ... FROM memory_old
CopyError(fault) ==
    IF fault THEN IOError
    ELSE IF ~memory.exists THEN "no such table: memory"
    ELSE IF ~memory_old.exists THEN "no such table: memory_old"
    ELSE ""

\* What the callback of the copy does with insertErr: it logs it and goes on
\* to step 4 (there is no return in index.js 54-56).
CopyAborts(err) == FALSE

\* Step 3
MigCopy ==
    /\ mpc = "copy"
    /\ \E fault \in BOOLEAN :
         LET err == CopyError(fault) IN
         /\ steps' = LogStep("copy", err)
         /\ memory' = IF err = "" THEN CopyRows(memory, memory_old.rows) ELSE memory
         /\ mpc' = IF CopyAborts(err) THEN "aborted" ELSE "drop"
    /\ UNCHANGED <<memory_old, history, genAI, runs, pre, first, clean,
                   reqs, pendingFacts, appliedSaves,
                   view, text, label>>

\* Step 4: DROP TABLE IF EXISTS memory_old; its callback logs the error or
\* "Memory table migrated successfully"
MigDrop ==
    /\ mpc = "drop"
    /\ \E fault \in BOOLEAN :
         LET err == IF fault THEN IOError ELSE "" IN
         /\ steps' = LogStep("drop", err)
         /\ memory_old' = IF err = "" THEN NoTable ELSE memory_old
         /\ clean' = (clean /\ err = "")
         /\ mpc' = "done"
    /\ UNCHANGED <<memory, history, genAI, runs, pre, first,
                   reqs, pendingFacts, appliedSaves,
                   view, text, label>>

\* The process is started again (index.js 76 runs the migration on every
\* start), once nothing of the previous process is in flight.
InFlight == \E i \in 1..Len(reqs) : reqs[i].phase # "done"

MigStart ==
    /\ mpc \in {"done", "aborted"}
    /\ runs < MaxRuns
    /\ ~InFlight /\ pendingFacts = {}
    /\ runs' = runs + 1
    /\ mpc' = "pragma"
    /\ steps' = <<>>
    /\ pre' = memory
    /\ clean' = (clean /\ mpc = "done")
    /\ UNCHANGED <<memory, memory_old, history, genAI, first,
                   reqs, pendingFacts, appliedSaves,
                   view, text, label>>

MigNext == MigPragma \/ MigRename \/ MigCreate \/ MigCopy \/ MigDrop \/ MigStart

(***************************************************************************)
(* The stores a first start can find: no fact table, a table of the old    *)
(* schema (no constraint, duplicates possible) or a migrated table.         *)
(***************************************************************************)
StoredKeys == {"name", "city"}
StoredValues == {"Alex", "Sam"}
FactRows == {Row(u, k, v) : u \in Users, k \in StoredKeys, v \in StoredValues}
RowSeqs == UNION {[1..n -> FactRows] : n \in 0..MaxRows}

InitialStores ==
    {NoTable} \cup {Table(FALSE, rs) : rs \in RowSeqs}
              \cup {Table(TRUE, rs) : rs \in {x \in RowSeqs : UniqueRows(x)}}

\* no GET /memory/:user_id answered yet
NoView == [user_id |-> "", status |-> 0, body |-> <<>>]

NoRequests ==
    /\ reqs = <<>>
    /\ pendingFacts = {}
    /\ appliedSaves = [u \in Users |-> <<>>]
    /\ history = {}
    /\ view = NoView
    /\ text = ""
    /\ label = ""

\* a first start of the process, on any store, with no request arriving
InitMig ==
    /\ memory \in InitialStores
    /\ memory_old = NoTable
    /\ genAI = FALSE
    /\ mpc = "pragma"
    /\ runs = 1
    /\ steps = <<>>
    /\ pre = memory
    /\ first = memory
    /\ clean = TRUE
    /\ NoRequests

SpecMig == InitMig /\ [][MigNext]_vars

(***************************************************************************)
(* POST /chat (index.js 180-219).  A request is received (the input check  *)
(* and the call of getFacts), then the callback of getFacts runs, then, in *)
(* live mode, the provider call returns.  In offline mode callLLM resolves *)
(* at once, so the rest of the handler runs with the callback.              *)
(*                                                                          *)
(* saveFact and saveHistory only hand a statement to the database          *)
(* (db.run with no callback, outside db.serialize): the handler goes on    *)
(* without waiting, and the database executes the statement later, in no   *)
(* guaranteed order with the statements of other callbacks.  No statement  *)
(* of the program reads the history table and its inserts commute, so the  *)
(* row of saveHistory is put into history when the statement is issued;    *)
(* the statements of saveFact wait in pendingFacts until ExecSaveFact.     *)
(***************************************************************************)
\* the row of saveHistory (index.js 113-116) for request req
saveHistory(req, userId, message, reply, tone) ==
    [req |-> req, user_id |-> userId, message |-> message, reply |-> reply,
     tone |-> tone]

\* the statement of saveFact (index.js 94-100) issued for request req
saveFact(req, userId, key, value) ==
    [req |-> req, user_id |-> userId, fact_key |-> key, fact_value |-> value]

Messages ==
    { "my name is Alex", "my name is Jo-Ann", "what is my name?",
      "I am sad", "tell me a joke", "be playful" }

\* the bodies of the requests: both fields, or one of them missing, or both
Bodies ==
    [user_id : {Str(u) : u \in Users}, message : {Str(m) : m \in Messages}]
    \cup [user_id : {Str(u) : u \in Users}, message : {Undefined}]
    \cup [user_id : {Undefined}, message : {Str("I am sad"), Undefined}]

\* if (!user_id || !message) return res.status(400)...
BadRequestUserOnly(body) == ~Truthy(body.user_id)

BadRequest(body) == ~Truthy(body.user_id) \/ ~Truthy(body.message)

\* A request as the model keeps it.  status 0: not answered yet.  upserts,
\* inserts and llmCalls count the saveFact, saveHistory and callLLM calls
\* the handler made for it; provider is what the provider call did; escaped
\* tells whether callLLM threw; after holds the requests that were already
\* answered when this one arrived; prompt is the prompt handed to callLLM.
NewRequest(body) ==
    [user_id |-> body.user_id, message |-> body.message,
     phase |-> "getFacts", status |-> 0,
     reply |-> "", tone |-> "", simulated |-> FALSE, error |-> "", detail |-> "",
     upserts |-> 0, inserts |-> 0, llmCalls |-> 0, provider |-> "none",
     escaped |-> FALSE, prompt |-> "",
     after |-> {i \in 1..Len(reqs) : reqs[i].status # 0}]

\* res.status(400).json({ error: ... })
Reject(r) ==
    [r EXCEPT !.phase = "done", !.status = 400,
              !.error = "Provide user_id and message"]

\* res.json({ reply, tone, simulated })
Answer(r, reply, tone, simulated) ==
    [r EXCEPT !.phase = "done", !.status = 200,
              !.reply = reply, !.tone = tone, !.simulated = simulated]

\* index.js 181-184 for a request whose body is one of bodies
Receive(bodies) ==
    /\ Len(reqs) < MaxReq
    /\ \E body \in bodies :
         reqs' = Append(reqs, IF BadRequest(body) THEN Reject(NewRequest(body))
                              ELSE NewRequest(body))
    /\ UNCHANGED <<memory, memory_old, history, genAI, mpc, runs, steps, pre,
                   first, clean, pendingFacts, appliedSaves,
                   view, text, label>>

ChatReceive == Receive(Bodies)

\* Messages that state a name and ask for it at once (the second one states
\* a blank after "my name is "), next to a statement and a question alone.
ViewMessages ==
    { "my name is Alex", "what is my name?",
      "My name is Bo. What is my name?", "my name is  - what is my name?" }

ViewBodies == [user_id : {Str("u1")}, message : {Str(m) : m \in ViewMessages}]

\* What the handler computes from the text of a message alone, computed once
\* for each text a request can carry ("" is the text of a missing message).
MessageTexts == Messages \cup ViewMessages \cup {""}

Analysis ==
    [m \in MessageTexts |->
        [tone |-> detectTone(m),
         named |-> HasNameMatch(m),
         name |-> IF HasNameMatch(m) THEN CapturedName(m) ELSE "",
         question |-> IsNameQuestion(m)]]

\* index.js 196-205: which way the handler goes after the name capture
RouteNoShortCircuit(message, facts) == "generate"

Route(message, facts) ==
    IF Analysis[message].question
    THEN IF Truthy(FactsGet(facts, "name")) THEN "known" ELSE "unknown"
    ELSE "generate"

\* index.js 207-217: after callLLM returned llm (or threw), for request i
\* whose tone is tone: saveHistory and the 200, or the 500 of the catch
Finish(i, r, tone, llm) ==
    IF llm.threw
    THEN /\ reqs' = [reqs EXCEPT ![i] =
                        [r EXCEPT !.phase = "done", !.status = 500, !.tone = tone,
                                  !.escaped = TRUE,
                                  !.error = "LLM call failed", !.detail = llm.text]]
         /\ UNCHANGED history
    ELSE /\ history' = history \cup {saveHistory(i, r.user_id.v, r.message.v, llm.text, tone)}
         /\ reqs' = [reqs EXCEPT ![i] =
                        Answer([r EXCEPT !.inserts = @ + 1], llm.text, tone,
                               llm.simulated)]

\* index.js 188-193: the facts after the name capture
CaptureName(message, loaded) ==
    IF Analysis[message].named
    THEN FactsSet(loaded, "name", Analysis[message].name)
    ELSE loaded

\* The callback of getFacts for a message that is no string: detectTone
\* calls message.toLowerCase(), which is no function, and the TypeError
\* leaves the async callback as a rejected promise that nothing handles.
\* No later statement of the callback runs and no response is sent.
ChatThrow(i) ==
    /\ reqs' = [reqs EXCEPT ![i] = [@ EXCEPT !.phase = "thrown"]]
    /\ UNCHANGED <<history, pendingFacts>>

\* the callback of getFacts, index.js 184-218
ChatFacts(i) ==
    /\ reqs[i].phase = "getFacts"
    /\ IF ~HasStringMethods(reqs[i].message) THEN ChatThrow(i) ELSE
       \E userId \in {reqs[i].user_id.v}, message \in {reqs[i].message.v} :
       \E tone \in {Analysis[message].tone},
          facts \in {CaptureName(message, getFacts(memory, userId))} :
       \E route \in {Route(message, facts)},
          r \in {IF Analysis[message].named
                 THEN [reqs[i] EXCEPT !.upserts = @ + 1] ELSE reqs[i]} :
       /\ pendingFacts' =
              IF Analysis[message].named
              THEN pendingFacts \cup {saveFact(i, userId, "name", Analysis[message].name)}
              ELSE pendingFacts
       /\ CASE route = "known" ->
                 /\ reqs' = [reqs EXCEPT ![i] =
                       Answer(r, "Your name is " \o FactsGet(facts, "name").v \o ".",
                              tone, TRUE)]
                 /\ UNCHANGED history
            [] route = "unknown" ->
                 /\ reqs' = [reqs EXCEPT ![i] =
                       Answer(r, "I don't know your name yet. What should I call you?",
                              tone, TRUE)]
                 /\ UNCHANGED history
            [] route = "generate" /\ ~genAI ->
                 \E prompt \in {buildPrompt(userId, message, facts, tone)} :
                    Finish(i, [r EXCEPT !.llmCalls = @ + 1, !.prompt = prompt], tone,
                           callLLMOffline(prompt))
            [] route = "generate" /\ genAI ->
                 /\ reqs' = [reqs EXCEPT ![i] =
                       [r EXCEPT !.phase = "llm", !.llmCalls = @ + 1, !.tone = tone,
                                 !.prompt = buildPrompt(userId, message, facts, tone)]]
                 /\ UNCHANGED history
    /\ UNCHANGED <<memory, memory_old, genAI, mpc, runs, steps, pre,
                   first, clean, appliedSaves,
                   view, text, label>>

\* live mode: model.generateContent(prompt) settles and callLLM returns
ChatLLMReturn(i) ==
    /\ reqs[i].phase = "llm"
    /\ \E outcome \in ProviderOutcomes :
       \E llm \in {callLLMLive(outcome)} :
         Finish(i, [reqs[i] EXCEPT !.provider = IF outcome.ok THEN "ok" ELSE "failed"],
                reqs[i].tone, llm)
    /\ UNCHANGED <<memory, memory_old, genAI, mpc, runs, steps, pre,
                   first, clean, pendingFacts, appliedSaves,
                   view, text, label>>

\* the database executes a statement of saveFact
ExecSaveFact ==
    /\ \E s \in pendingFacts :
         /\ pendingFacts' = pendingFacts \ {s}
         /\ memory' = SaveFactSQL(memory, s.user_id, s.fact_key, s.fact_value)
         /\ appliedSaves' =
              IF SaveFactFails(memory) THEN appliedSaves
              ELSE [appliedSaves EXCEPT ![s.user_id] =
                        Append(@, [req |-> s.req, fact_value |-> s.fact_value])]
    /\ UNCHANGED <<memory_old, history, genAI, mpc, runs, steps, pre, first,
                   clean, reqs,
                   view, text, label>>

ChatNext ==
    \/ ChatReceive
    \/ \E i \in 1..Len(reqs) : ChatFacts(i)
    \/ \E i \in 1..Len(reqs) : ChatLLMReturn(i)
    \/ ExecSaveFact

\* The server after a first start on a new database file has migrated it:
\* an empty fact table with the constraint, an empty history table.  The
\* credential is set or not.
InitChat ==
    /\ memory = Table(TRUE, <<>>)
    /\ memory_old = NoTable
    /\ genAI \in BOOLEAN
    /\ mpc = "done"
    /\ runs = 1
    /\ steps = <<>>
    /\ pre = NoTable
    /\ first = NoTable
    /\ clean = TRUE
    /\ NoRequests

SpecChat == InitChat /\ [][ChatNext]_vars

(***************************************************************************)
(* GET /memory/:user_id (index.js 222-226), next to POST /chat, on the     *)
(* stores a finished or given-up startup migration leaves: a migrated      *)
(* table, empty or with facts of one user, or no fact table at all (the    *)
(* CREATE of step 2 failed after the rename), where every SELECT fails.    *)
(***************************************************************************)
MemoryGetNotFound(u) ==
    /\ view' = [user_id |-> u,
                status |-> IF getFacts(memory, u) = <<>> THEN 404 ELSE 200,
                body |-> getFacts(memory, u)]
    /\ UNCHANGED <<memory, memory_old, history, genAI, mpc, runs, steps, pre,
                   first, clean, reqs, pendingFacts, appliedSaves, text, label>>

\* getFacts(req.params.user_id, (facts) => { res.json(facts); })
MemoryGet(u) ==
    /\ view' = [user_id |-> u, status |-> 200, body |-> getFacts(memory, u)]
    /\ UNCHANGED <<memory, memory_old, history, genAI, mpc, runs, steps, pre,
                   first, clean, reqs, pendingFacts, appliedSaves, text, label>>

StepsOk == [i \in 1..5 |->
               [step |-> <<"pragma", "rename", "create", "copy", "drop">>[i], err |-> ""]]

StepsCreateFailed ==
    <<[step |-> "pragma", err |-> ""], [step |-> "rename", err |-> ""],
      [step |-> "create", err |-> IOError]>>

MigratedStart(rs) ==
    [memory |-> Table(TRUE, rs), memory_old |-> NoTable, mpc |-> "done",
     steps |-> StepsOk, first |-> Table(TRUE, rs)]

ViewStarts ==
    { MigratedStart(<<>>),
      MigratedStart(<<Row("u1", "name", "Sam")>>),
      MigratedStart(<<Row("u2", "name", "Sam"), Row("u2", "city", "Sam")>>),
      [memory |-> NoTable, memory_old |-> Table(FALSE, <<Row("u1", "name", "Sam")>>),
       mpc |-> "aborted", steps |-> StepsCreateFailed,
       first |-> Table(FALSE, <<Row("u1", "name", "Sam")>>)] }

InitView ==
    /\ \E st \in ViewStarts :
         /\ memory = st.memory
         /\ memory_old = st.memory_old
         /\ mpc = st.mpc
         /\ steps = st.steps
         /\ pre = st.first
         /\ first = st.first
    /\ genAI = FALSE
    /\ runs = 1
    /\ clean = TRUE
    /\ NoRequests

ViewReceive == Receive(ViewBodies)

ViewNext ==
    \/ ViewReceive
    \/ \E i \in 1..Len(reqs) : ChatFacts(i)
    \/ ExecSaveFact
    \/ \E u \in Users : MemoryGet(u)

SpecView == InitView /\ [][ViewNext]_vars

(***************************************************************************)
(* The server during its startup.  app.listen (index.js 228) is called     *)
(* when the module is loaded, while each statement of the migration is     *)
(* issued by the callback of the one before it: requests are received, and *)
(* their statements executed, between the steps of the migration.           *)
(***************************************************************************)
BootBodies == [user_id : {Str("u1")}, message : {Str("my name is Alex")}]

BootReceive == Receive(BootBodies)

BootNext ==
    \/ MigPragma \/ MigRename \/ MigCreate \/ MigCopy \/ MigDrop
    \/ BootReceive
    \/ \E i \in 1..Len(reqs) : ChatFacts(i)
    \/ ExecSaveFact

SpecBoot == InitMig /\ [][BootNext]_vars

(***************************************************************************)
(* POST /chat with a message of any JSON type.  express.json() hands the   *)
(* handler whatever value the body holds; a number, true and an array pass *)
(* the check of index.js 182.  The database runs every SELECT it was given *)
(* and the provider call settles, which the fairness conditions state.     *)
(***************************************************************************)
AnyBodies ==
    [user_id : {Str("u1")},
     message : {Str("my name is Alex"), Str("what is my name?"), Str("tell me a joke"),
                Num("5"), Bool("true"), Arr}]

AnyReceive == Receive(AnyBodies)

AnyNext ==
    \/ AnyReceive
    \/ \E i \in 1..Len(reqs) : ChatFacts(i)
    \/ \E i \in 1..Len(reqs) : ChatLLMReturn(i)
    \/ ExecSaveFact

SpecAny ==
    /\ InitChat /\ [][AnyNext]_vars
    /\ WF_vars(\E i \in 1..Len(reqs) : ChatFacts(i))
    /\ WF_vars(\E i \in 1..Len(reqs) : ChatLLMReturn(i))
    /\ WF_vars(ExecSaveFact)

(***************************************************************************)
(* detectTone on its own: a message made of at most MaxWords fragments is  *)
(* handed to detectTone once.  The fragments put keywords of both lists,   *)
(* in both cases, whole and split, next to text that has none.              *)
(***************************************************************************)
ToneFragments == {"sad", "Wor", "ried", "not", " good", "JOKE", "lol", "download", "hi "}

RECURSIVE ToneTexts(_)
ToneTexts(n) ==
    IF n = 0 THEN {""}
    ELSE ToneTexts(n - 1) \cup {t \o f : t \in ToneTexts(n - 1), f \in ToneFragments}

InitTone ==
    /\ memory = Table(TRUE, <<>>)
    /\ memory_old = NoTable
    /\ genAI = FALSE
    /\ mpc = "done"
    /\ runs = 1
    /\ steps = <<>>
    /\ pre = NoTable
    /\ first = NoTable
    /\ clean = TRUE
    /\ reqs = <<>>
    /\ pendingFacts = {}
    /\ appliedSaves = [u \in Users |-> <<>>]
    /\ history = {}
    /\ view = NoView
    /\ text \in ToneTexts(MaxWords)
    /\ label = ""

\* const tone = detectTone(message)
Classify ==
    /\ label = ""
    /\ label' = detectTone(text)
    /\ UNCHANGED <<memory, memory_old, history, genAI, mpc, runs, steps, pre,
                   first, clean, reqs, pendingFacts, appliedSaves, view, text>>

ToneNext == Classify

SpecTone == InitTone /\ [][ToneNext]_vars

(***************************************************************************)
(* Claims about the migration, checked under SpecMig.                       *)
(***************************************************************************)
\* the values the rows of rs give the pair (userId, key)
ValuesOf(rs, userId, key) ==
    {rs[i].fact_value : i \in {j \in 1..Len(rs) :
                                 rs[j].user_id = userId /\ rs[j].fact_key = key}}

RowSet(rs) == {rs[i] : i \in 1..Len(rs)}

\* the current migration ran all its steps and logged its success line
Migrated == mpc = "done" /\ steps # <<>> /\ steps[Len(steps)].err = ""

\* a step failure other than the rename finding no table to rename
StepFailed(s) ==
    /\ s.err # ""
    /\ ~(s.step = "rename" /\ Includes(s.err, "no such table"))

\* C5: when the migration has run to completion, the fact table has at most
\* one row per (user_id, fact_key), every pair the table held when the
\* migration started is still there with one of the values it had, and the
\* temporary table is gone.
C5_MigrationKeepsEveryPair ==
    Migrated =>
        /\ memory.exists
        /\ UniqueRows(memory.rows)
        /\ \A i \in 1..Len(pre.rows) :
              LET r == pre.rows[i] IN
              /\ HasRow(memory.rows, r.user_id, r.fact_key)
              /\ ValuesOf(memory.rows, r.user_id, r.fact_key)
                     \subseteq ValuesOf(pre.rows, r.user_id, r.fact_key)
        /\ ~memory_old.exists

\* C6: once a step of the migration has failed (other than the rename
\* failing because there is no table), no later step is executed: a failed
\* step is the last step of its run.
C6_FailureAbortsMigration ==
    \A i \in 1..Len(steps) : StepFailed(steps[i]) => i = Len(steps)

\* C7: after two migrations in succession on an already migrated store, the
\* fact table holds the rows (count and content) it held before them.
C7_TwoRunsLeaveRowsUnchanged ==
    (first.exists /\ first.unique /\ runs = 2 /\ clean /\ Migrated) =>
        /\ memory.exists
        /\ Len(memory.rows) = Len(first.rows)
        /\ RowSet(memory.rows) = RowSet(first.rows)

(***************************************************************************)
(* Claims about the fact store and POST /chat, checked under SpecChat.      *)
(***************************************************************************)
\* the rows of the fact table that hold userId's name
NameRows(userId) ==
    {i \in 1..Len(memory.rows) :
        memory.rows[i].user_id = userId /\ memory.rows[i].fact_key = "name"}

LastApplied(userId) == appliedSaves[userId][Len(appliedSaves[userId])].fact_value

StatedNames == {"Alex", "Jo-Ann"}

\* C2: if u's request "my name is X" was answered before u's request "what
\* is my name?" arrived, the reply to the second contains X and the second
\* request inserted no history row.
C2_NameRecalledAfterAnswer ==
    \A i, j \in 1..Len(reqs) : \A x \in StatedNames :
       ( /\ i \in reqs[j].after
         /\ reqs[i].user_id = reqs[j].user_id
         /\ reqs[i].message = Str(NamePrefix \o x)
         /\ reqs[j].message = Str("what is my name?")
         /\ reqs[j].status # 0 )
       => /\ Includes(reqs[j].reply, x)
          /\ reqs[j].inserts = 0

\* a request answered by the offline branch of callLLM
OfflineGenerated(i) ==
    ~genAI /\ reqs[i].status = 200 /\ reqs[i].llmCalls = 1

\* C3: in offline mode the reply is the template of the tone the classifier
\* gave the message.
C3_TemplateFollowsTone ==
    \A i \in 1..Len(reqs) :
       OfflineGenerated(i) => reqs[i].reply = ReplyOfTone(reqs[i].tone)

\* C4: in offline mode a request of neutral tone gets exactly the neutral
\* fallback sentence ("Thanks for telling me...") and simulated = true.
C4_NeutralFallback ==
    \A i \in 1..Len(reqs) :
       (OfflineGenerated(i) /\ reqs[i].tone = "neutral") =>
          /\ reqs[i].reply = NeutralReply
          /\ SubSeq(reqs[i].reply, 1, 21) = "Thanks for telling me"
          /\ reqs[i].simulated

\* the rows request i has put, or asked to put, into the two tables
RowsOf(i) ==
    {s \in pendingFacts : s.req = i}
    \cup {h \in history : h.req = i}
    \cup UNION {{[req |-> i, user_id |-> u, fact_key |-> "name",
                  fact_value |-> appliedSaves[u][k].fact_value] :
                    k \in {n \in 1..Len(appliedSaves[u]) : appliedSaves[u][n].req = i}}
                : u \in Users}

\* C8: a request with user_id or message missing is answered 400 with an
\* error body, and it writes no fact row and no history row.
C8_MissingFieldRejected ==
    \A i \in 1..Len(reqs) :
       (reqs[i].user_id = Undefined \/ reqs[i].message = Undefined) =>
          /\ reqs[i].status = 400
          /\ reqs[i].error # ""
          /\ reqs[i].upserts = 0 /\ reqs[i].inserts = 0 /\ reqs[i].llmCalls = 0
          /\ RowsOf(i) = {}

\* C8 witness: a request with no message was rejected while the tables hold
\* rows of another request.
C8_Witness ==
    \E i, j \in 1..Len(reqs) :
       /\ reqs[i].user_id # Undefined /\ reqs[i].message = Undefined
       /\ reqs[i].status = 400
       /\ j < i /\ history # {} /\ memory.rows # <<>>

\* how many saveFact statements of request i were executed
AppliedOf(i) ==
    {<<u, k>> \in Users \X (1..MaxReq) :
        k <= Len(appliedSaves[u]) /\ appliedSaves[u][k].req = i}

\* C9: a request makes at most one fact upsert and at most one history
\* insert; a request whose message matches the name question makes no call
\* of callLLM and inserts no history row.
C9_AtMostOneOfEach ==
    \A i \in 1..Len(reqs) :
       /\ reqs[i].upserts <= 1
       /\ reqs[i].inserts <= 1
       /\ Cardinality({s \in pendingFacts : s.req = i}) + Cardinality(AppliedOf(i))
             <= reqs[i].upserts
       /\ Cardinality({h \in history : h.req = i}) <= reqs[i].inserts
       /\ Analysis[reqs[i].message.v].question =>
             /\ reqs[i].llmCalls = 0
             /\ reqs[i].inserts = 0

\* C9 witness: one request captured a name and went through callLLM (one
\* upsert, one history row), another asked the name question and was
\* answered without callLLM.
C9_Witness ==
    \E i, j \in 1..Len(reqs) :
       /\ reqs[i].status = 200 /\ reqs[i].upserts = 1 /\ reqs[i].inserts = 1
       /\ Cardinality({h \in history : h.req = i}) = 1
       /\ reqs[j].status = 200 /\ Analysis[reqs[j].message.v].question
       /\ reqs[j].llmCalls = 0

\* C10: in live mode a failed provider call does not make callLLM throw: the
\* request is answered 200 with the error text as reply and simulated =
\* true; 500 is answered only when an exception escaped callLLM.
C10_ProviderFailureDegrades ==
    \A i \in 1..Len(reqs) :
       /\ reqs[i].provider = "failed" =>
             /\ ~reqs[i].escaped
             /\ reqs[i].status = 200
             /\ reqs[i].reply = "Error calling Gemini: fetch failed"
             /\ reqs[i].simulated
       /\ reqs[i].status = 500 => reqs[i].escaped

\* C10 witness: a live request whose provider call failed was answered 200
\* and its degraded reply went into the history.
C10_Witness ==
    \E i \in 1..Len(reqs) :
       /\ genAI /\ reqs[i].provider = "failed" /\ reqs[i].status = 200
       /\ \E h \in history : h.req = i /\ h.reply = reqs[i].reply

\* request i's saveFact statement has been executed
Wrote(i) ==
    \E k \in 1..Len(appliedSaves[reqs[i].user_id.v]) :
        appliedSaves[reqs[i].user_id.v][k].req = i

\* requests i and j of one user each state a name, and j arrived while i was
\* not answered yet
ConcurrentNames(i, j) ==
    /\ i < j /\ i \notin reqs[j].after
    /\ reqs[i].user_id = reqs[j].user_id
    /\ Truthy(reqs[i].user_id)
    /\ HasStringMethods(reqs[i].message) /\ Analysis[reqs[i].message.v].named
    /\ HasStringMethods(reqs[j].message) /\ Analysis[reqs[j].message.v].named

\* the request whose saveFact statement was executed last for userId
LastWriter(userId) == appliedSaves[userId][Len(appliedSaves[userId])].req

\* C11: when two concurrent requests of one user each state a name and both
\* writes have been executed, one of them last, the fact table holds exactly
\* one name row for the user and its value is the name stated by the request
\* whose write was executed last.
C11_LastWriteWins ==
    \A i, j \in 1..Len(reqs) :
       ( /\ ConcurrentNames(i, j)
         /\ Wrote(i) /\ Wrote(j)
         /\ LastWriter(reqs[i].user_id.v) \in {i, j} )
       => LET u == reqs[i].user_id.v
              w == LastWriter(u)
          IN /\ Cardinality(NameRows(u)) = 1
             /\ \A n \in NameRows(u) :
                   memory.rows[n].fact_value = Analysis[reqs[w].message.v].name

\* C11 witness: two concurrent requests of one user stated different names,
\* the write of the later request was executed first, and the one name row
\* holds the name of the earlier request.
C11_Witness ==
    \E i, j \in 1..Len(reqs) :
       /\ ConcurrentNames(i, j)
       /\ Analysis[reqs[i].message.v].name # Analysis[reqs[j].message.v].name
       /\ Len(appliedSaves[reqs[i].user_id.v]) = 2
       /\ appliedSaves[reqs[i].user_id.v][1].req = j
       /\ appliedSaves[reqs[i].user_id.v][2].req = i
       /\ \E n \in NameRows(reqs[i].user_id.v) :
             memory.rows[n].fact_value = Analysis[reqs[i].message.v].name

(***************************************************************************)
(* Claims about detectTone, checked under SpecTone.                         *)
(***************************************************************************)
\* message contains the keyword w, letters compared without regard to case
HasWord(message, w) ==
    \E i \in 1..(Len(message) - Len(w) + 1) :
       \A k \in 1..Len(w) : LowerChar(CharAt(message, i + k - 1)) = CharAt(w, k)

HasEmpathetic(message) ==
    \E w \in {"sad", "depressed", "unhappy", "down", "not good", "worried"} :
       HasWord(message, w)

HasPlayful(message) ==
    \E w \in {"joke", "roast", "funny", "lol", "haha"} : HasWord(message, w)

\* C12: detectTone returns exactly one of the three labels: empathetic for a
\* message with an empathetic keyword (whatever else it contains), playful
\* for a message with a playful keyword and no empathetic one, and neutral
\* for every other message.
C12_ToneByPrecedence ==
    label # "" =>
       /\ label \in {"empathetic", "playful", "neutral"}
       /\ HasEmpathetic(text) => label = "empathetic"
       /\ (HasPlayful(text) /\ ~HasEmpathetic(text)) => label = "playful"
       /\ (~HasPlayful(text) /\ ~HasEmpathetic(text)) => label = "neutral"

\* C12 witness: a message with a keyword of each list, the playful one
\* first and in capitals, was classified empathetic.
C12_Witness ==
    /\ label = "empathetic"
    /\ Len(text) >= 4 /\ SubSeq(text, 1, 4) = "JOKE"
    /\ HasPlayful(text) /\ HasEmpathetic(text)

(***************************************************************************)
(* Claims about GET /memory and the facts a request works with, checked    *)
(* under SpecView.                                                           *)
(***************************************************************************)
\* the (key, value) pairs the rows of tbl give userId
PairsOf(tbl, userId) ==
    {<<tbl.rows[n].fact_key, tbl.rows[n].fact_value>> :
        n \in {k \in 1..Len(tbl.rows) : tbl.rows[k].user_id = userId}}

\* the (key, value) pairs of a facts mapping
PairsIn(facts) == {<<facts[k].key, facts[k].value>> : k \in 1..Len(facts)}

\* C13: a step of GET /memory/:user_id answers 200 with exactly the facts the
\* table holds for that user, one entry per key (none for a user without
\* facts), and changes neither the fact table nor the history table (nor
\* the statements waiting for them).
C13_MemoryGetReadOnly ==
    [][ \A u \in Users :
          MemoryGet(u) =>
             /\ memory' = memory /\ memory_old' = memory_old
             /\ history' = history /\ pendingFacts' = pendingFacts
             /\ view'.user_id = u
             /\ view'.status = 200
             /\ PairsIn(view'.body) = PairsOf(memory, u)
             /\ Len(view'.body) = Cardinality(PairsOf(memory, u)) ]_vars

\* C13 witness: GET /memory/u2 was answered with u2's two facts while the
\* table also holds a name that a /chat request of u1 saved.
C13_Witness ==
    /\ view.user_id = "u2" /\ view.status = 200
    /\ PairsIn(view.body) = {<<"name", "Sam">>, <<"city", "Sam">>}
    /\ Len(memory.rows) = 3
    /\ appliedSaves["u1"] # <<>>

\* the reply of a name question to a user whose name is not known
UnknownReply == "I don't know your name yet. What should I call you?"

\* C14: a request that states a name and is answered has used the captured
\* name: if its message also asks the name question, the reply is "Your
\* name is <captured name>."; otherwise the prompt handed to callLLM holds
\* the captured name as the name fact.
C14_CapturedNameUsed ==
    \A i \in 1..Len(reqs) :
       (reqs[i].status = 200 /\ Analysis[reqs[i].message.v].named) =>
          LET a == Analysis[reqs[i].message.v] IN
          IF a.question
          THEN reqs[i].reply = "Your name is " \o a.name \o "."
          ELSE Includes(reqs[i].prompt, "\"name\":\"" \o a.name \o "\"")

\* C15: while the fact table cannot be read, an answered name question gets
\* status 200 and the reply for an unknown name, and an answered GET
\* /memory gets status 200 and the empty object; no request gets an error
\* status from it.
C15_ReadFailureIsEmpty ==
    ~memory.exists =>
       /\ \A i \in 1..Len(reqs) :
             /\ reqs[i].status \in {0, 200}
             /\ ( /\ reqs[i].status # 0
                  /\ Analysis[reqs[i].message.v].question
                  /\ ~Analysis[reqs[i].message.v].named )
                => (reqs[i].status = 200 /\ reqs[i].reply = UnknownReply)
       /\ view.status # 0 => (view.status = 200 /\ view.body = <<>>)

\* C15 witness: with the fact table gone and u1's name left in the renamed
\* table, u1's name question was answered 200 with the reply for an unknown
\* name and GET /memory/u1 was answered 200 with the empty object.
C15_Witness ==
    /\ ~memory.exists
    /\ HasRow(memory_old.rows, "u1", "name")
    /\ \E i \in 1..Len(reqs) :
          /\ reqs[i].message = Str("what is my name?")
          /\ reqs[i].status = 200 /\ reqs[i].reply = UnknownReply
    /\ view = [user_id |-> "u1", status |-> 200, body |-> <<>>]

\* the names the answered or unanswered requests of userId have stated
NamesStatedBy(userId) ==
    {Analysis[reqs[i].message.v].name :
        i \in {k \in 1..Len(reqs) : /\ reqs[k].user_id = Str(userId)
                                     /\ Analysis[reqs[k].message.v].named}}

\* the (key, value) pairs that are userId's own: those the store held for
\* userId at the start and the names userId has stated
OwnPairs(userId) ==
    PairsOf(first, userId) \cup {<<"name", x>> : x \in NamesStatedBy(userId)}

\* every (key, value) pair the store held at the start or holds now
AllPairs ==
    UNION {PairsOf(first, u) \cup PairsOf(memory, u) : u \in Users}

\* C18: a request writes only under its own user_id (statements waiting,
\* statements executed and history rows); the facts of a user who sent no
\* request are what they were at the start; and the facts in a prompt, the
\* name in a recall reply and the body of GET /memory/u are u's own pairs.
C18_UserSpecific ==
    /\ \A s \in pendingFacts : Str(s.user_id) = reqs[s.req].user_id
    /\ \A h \in history : Str(h.user_id) = reqs[h.req].user_id
    /\ \A u \in Users : \A k \in 1..Len(appliedSaves[u]) :
          reqs[appliedSaves[u][k].req].user_id = Str(u)
    /\ \A u \in Users :
          (memory.exists /\ \A i \in 1..Len(reqs) : reqs[i].user_id # Str(u))
             => PairsOf(memory, u) = PairsOf(first, u)
    /\ \A i \in 1..Len(reqs) : \A pr \in AllPairs :
          LET u == reqs[i].user_id.v IN
          /\ Includes(reqs[i].prompt, "\"" \o pr[1] \o "\":\"" \o pr[2] \o "\"")
                => pr \in OwnPairs(u)
          /\ (pr[1] = "name" /\ reqs[i].reply = "Your name is " \o pr[2] \o ".")
                => pr \in OwnPairs(u)
    /\ view.status # 0 => PairsIn(view.body) \subseteq OwnPairs(view.user_id)

\* C18 witness: while the table holds u2's name, u1's name question was
\* answered with the reply for an unknown name, u1 then stated a name, and
\* GET /memory/u1 shows that name alone.
C18_Witness ==
    /\ PairsOf(memory, "u2") = {<<"name", "Sam">>, <<"city", "Sam">>}
    /\ \E i \in 1..Len(reqs) :
          /\ reqs[i].user_id = Str("u1")
          /\ reqs[i].message = Str("what is my name?")
          /\ reqs[i].reply = UnknownReply
    /\ \E j \in 1..Len(reqs) :
          /\ reqs[j].user_id = Str("u1") /\ reqs[j].status = 200
          /\ Includes(reqs[j].prompt, "{\"name\":\"Alex\"}")
    /\ view = [user_id |-> "u1", status |-> 200,
               body |-> <<[key |-> "name", value |-> "Alex"]>>]

(***************************************************************************)
(* Claim about the response of POST /chat, checked under SpecAny.           *)
(***************************************************************************)
\* C16: every request whose user_id and message are truthy, of whatever
\* JSON type, is eventually answered with status 200 or 500.
C16_EveryRequestAnswered ==
    \A i \in 1..MaxReq :
       (i <= Len(reqs) /\ Truthy(reqs[i].user_id) /\ Truthy(reqs[i].message))
          ~> (i <= Len(reqs) /\ reqs[i].status \in {200, 500})

(***************************************************************************)
(* Claim about requests during the startup migration, checked under        *)
(* SpecBoot.                                                                 *)
(***************************************************************************)
\* C17: when the migration has finished, all its statements having
\* succeeded, and no saveFact statement is waiting, the fact table holds a
\* name for every user a request of whom has saved one, and it is a name
\* that user stated.
C17_SavedFactSurvivesMigration ==
    ( /\ mpc = "done"
      /\ Len(steps) = 5 /\ \A k \in 1..Len(steps) : steps[k].err = ""
      /\ pendingFacts = {} )
    => \A i \in 1..Len(reqs) :
          reqs[i].upserts = 1 =>
             /\ memory.exists
             /\ \E n \in 1..Len(memory.rows) :
                   /\ memory.rows[n].user_id = reqs[i].user_id.v
                   /\ memory.rows[n].fact_key = "name"
                   /\ memory.rows[n].fact_value \in NamesStatedBy(reqs[i].user_id.v)

====
